---- MODULE Spec2Model ----
(***************************************************************************)
(* Model of the integration-test harness of mcp-oracledb-server:           *)
(* TestBase (make_request, assert_success, wait_for_service), the seven    *)
(* controller suites (their checks, their status classifiers and           *)
(* run_all_tests), the two root scripts test_banking_corrected.py and      *)
(* test_controllers_advanced.py (main / run_comprehensive_test_suite),     *)
(* MasterTestRunner (run_all_tests.py), ComprehensiveTestRunner            *)
(* (run_all_controller_tests.py), run_quick_tests.py,                      *)
(* verify_database_access.py and fix_all_tests.py.                         *)
(*                                                                         *)
(* The remote service is the environment: every request is answered by a   *)
(* nondeterministically chosen network outcome (an HTTP response with a    *)
(* status code and a body, or a connection failure), or never answered.    *)
(* Each program is a process of its own; the variables of the programs     *)
(* that are not the one under observation stay at their "absent" values.   *)
(***************************************************************************)
EXTENDS Integers, Sequences, FiniteSets, TLC

(***************************************************************************)
(* State.                                                                  *)
(***************************************************************************)
VARIABLES
  suite,            \* which suite / script runs
  ntests,           \* len(tests): the number of checks in its tests list
  pc,               \* "init", "loop", "blocked", "done", "abandoned", "crashed"
  idx,              \* number of checks invoked so far (position in tests)
  passed,           \* the local counter passed
  total,            \* the local total, once assigned
  test_results,     \* self.test_results: (check, result) entries
  results_summary,  \* results_summary of run_comprehensive_test_suite
  csrf_token,       \* self.csrf_token of the CSRF suite
  history,          \* per invoked check: status from make_request, how it ended
  ret,              \* what the run returned, or the exception that left it
  classifier,       \* one classification: the classifier a check calls,
  request,          \*   the network outcome of its request,
  answer,           \*   <<(status_code, response)>> once make_request returned,
  verdict,          \*   what the classifier returned, "none" before
  test_suites,      \* MasterTestRunner.test_suites: the registered suite classes
  overall_results,  \* MasterTestRunner.overall_results
  total_passed,     \* the local total_passed of MasterTestRunner.run_all_tests
  total_suites,     \* its local total_suites, once assigned
  master_pc,        \* "absent", "idle", "running", "done", "crashed"
  master_ret,       \* what MasterTestRunner.run_all_tests returned
  service,          \* how the service answers the suites MasterTestRunner runs
  max_attempts,     \* wait_for_service: its argument,
  attempt,          \*   the loop variable attempt,
  health,           \*   the statuses its health requests got, in order,
  sleeps,           \*   how many times it slept,
  wait_pc,          \*   "absent", "request", "sleep", "returned", "blocked",
  wait_ret,         \*   what it returned
  nscripts,         \* ComprehensiveTestRunner: len(self.test_scripts),
  script_idx,       \*   how many scripts its loop has gone through,
  results,          \*   self.results,
  children,         \*   what subprocess.run gave for each script, in order,
  reported,         \*   the scripts its detailed summary listed, in order,
  saved,            \*   what it wrote to controller_test_results.json,
  script_pc,        \*   "absent", "start", "loop", "done", "abandoned",
  script_ret,       \*   what run_all_tests returned
  verify_pc,        \* verify_database_access.main: the step it is at,
  verify_log,       \*   what each step it called gave, in order,
  verify_ret,       \*   what main returned
  method,           \* the method argument of one make_request call
  files,            \* fix_all_tests.py: the content of each file of test_files,
  fix_idx,          \*   how many files the loop of the current run has gone through,
  fix_runs,         \*   how many runs of the script have ended,
  fix_pc,           \*   "absent", "loop", "done"
  exit_code         \* the exit status of the process, "none" while it runs

(***************************************************************************)
(* Bounds of the model.                                                    *)
(***************************************************************************)
\* Longest tests list explored.  The run loops iterate over whatever list
\* they are given, so the list length is an input of the model.
MaxChecks == 3

(***************************************************************************)
(* Suites and the scripts that own a run loop.                             *)
(***************************************************************************)
ControllerSuites == {"CSRF", "Core", "Analytics", "AI", "Performance", "Privilege", "Security"}

TolerantSuites == {"AI", "Performance", "Privilege", "Security"}

RootScripts == {"Banking", "Advanced"}

Suites == ControllerSuites \cup RootScripts

(***************************************************************************)
(* What the service can answer.                                            *)
(*                                                                         *)
(* A body is abstracted to what the harness looks at:                      *)
(*   kind    "object" (a JSON object), "array" (any JSON value that is not *)
(*           an object), "empty" (no content), "invalid" (not JSON);       *)
(*   status  the value under 'status';                                     *)
(*   sql     'message' contains "SQL grammar";                             *)
(*   data    the value under 'data': absent, a sized value (list, dict,    *)
(*           string) or an unsized one (null, number);                     *)
(*   results the value under the key a Core / Analytics check reads        *)
(*           ('results', 'tables', 'columns');                             *)
(*   token   the value under 'token';                                      *)
(*   err     the object is the {"error": ...} built by make_request.       *)
(***************************************************************************)
HttpStatuses == {200, 401, 404, 500}

Vals == {"absent", "sized", "unsized"}

Plain(kind) ==
  [kind |-> kind, status |-> "none", sql |-> FALSE, data |-> "absent",
   results |-> "absent", token |-> "absent", err |-> FALSE]

EmptyObject == Plain("object")

ErrorObject == [EmptyObject EXCEPT !.err = TRUE]

Bodies ==
  { [EmptyObject EXCEPT !.status = s, !.data = d, !.results = r] :
        s \in {"success", "error", "none"}, d \in Vals, r \in Vals }
  \cup { [EmptyObject EXCEPT !.status = "error", !.sql = TRUE, !.data = d] :
        d \in {"absent", "sized"} }
  \cup { [EmptyObject EXCEPT !.token = t] : t \in {"string", "number"} }
  \cup { Plain("array"), Plain("empty"), Plain("invalid") }

\* A network outcome: the request failed (no response) or a response arrived.
NetOutcomes ==
  { [failed |-> TRUE, code |-> 0, body |-> Plain("empty")] }
  \cup { [failed |-> FALSE, code |-> c, body |-> b] : c \in HttpStatuses, b \in Bodies }

(***************************************************************************)
(* TestBase.make_request and the make_request of the two root scripts:     *)
(* the pair (status_code, response) handed to the check.                   *)
(***************************************************************************)
\* make_request with a decode failure keeping the response's status code
make_request_keeps_code(net) ==
  IF net.failed
    THEN [status |-> 500, response |-> ErrorObject]
    ELSE IF net.body.kind = "invalid"
      THEN [status |-> net.code, response |-> ErrorObject]
      ELSE IF net.body.kind = "empty"
        THEN [status |-> net.code, response |-> EmptyObject]
        ELSE [status |-> net.code, response |-> net.body]

make_request(net) ==
  IF net.failed \/ net.body.kind = "invalid"
    THEN [status |-> 500, response |-> ErrorObject]
    ELSE IF net.body.kind = "empty"
      THEN [status |-> net.code, response |-> EmptyObject]
      ELSE [status |-> net.code, response |-> net.body]

(***************************************************************************)
(* A request the service accepts and never answers, and the timeout        *)
(* argument of the requests call that sends it.                            *)
(***************************************************************************)
\* TIMEOUT of verify_database_access.py, in seconds
TIMEOUT == 30

\* no timeout argument: requests waits for the answer without limit
NoTimeout == {}

\* the timeout the requests calls of a script are made with
TimeoutOf(script) == IF script = "Verify" THEN {TIMEOUT} ELSE NoTimeout

\* the service accepted the request and never answers
Unanswered == [failed |-> FALSE, code |-> 0, body |-> Plain("unanswered")]

\* requests.get / requests.post: a response comes back ("response"), the
\* call raises ("raise"), or it never returns ("blocked")
Sent(net, timeout) ==
  IF net = Unanswered
    THEN (IF timeout = NoTimeout THEN "blocked" ELSE "raise")
    ELSE IF net.failed THEN "raise" ELSE "response"

(***************************************************************************)
(* The status classifiers.  Each yields "True", "False" or "raise" (the    *)
(* classifier itself raised: response.get on a value that is not a dict).  *)
(***************************************************************************)
Bool(b) == IF b THEN "True" ELSE "False"

\* assert_success comparing 'status' with a value the service never sends
assert_success_wrong_literal(status_code, response) ==
  IF status_code = 200
    THEN IF response.kind # "object" THEN "raise" ELSE "False"
    ELSE "False"

\* TestBase.assert_success
assert_success(status_code, response) ==
  IF status_code = 200
    THEN IF response.kind # "object" THEN "raise"
         ELSE Bool(response.status = "success")
    ELSE "False"

\* the message of an error payload never taken for an SQL syntax issue
MentionsSqlGrammar_never(response) == FALSE

\* 'SQL grammar' in str(response.get('message', ''))
MentionsSqlGrammar(response) == response.sql

\* analytics_assert_success passing every 200
analytics_assert_success_any_200(status_code, response) ==
  IF status_code = 200 THEN "True"
  ELSE IF status_code = 404 THEN "True"
  ELSE "False"

\* TestOracleAnalyticsController.analytics_assert_success
analytics_assert_success(status_code, response) ==
  IF status_code = 200
    THEN IF response.kind # "object" THEN "raise"
         ELSE IF response.status = "success" \/ response.data # "absent" THEN "True"
         ELSE IF response.status = "error" /\ MentionsSqlGrammar(response) THEN "True"
         ELSE "False"
    ELSE IF status_code = 404 THEN "True"
    ELSE "False"

\* ai_assert_success without its 404 branch
ai_assert_success_no_404(status_code, response) ==
  IF status_code = 200 THEN "True"
  ELSE "False"

\* TestOracleAIController.ai_assert_success
ai_assert_success(status_code, response) ==
  IF status_code = 200 THEN "True"
  ELSE IF status_code = 404 THEN "True"
  ELSE "False"

\* TestOraclePerformanceController.perf_assert_success, the first of its two
\* definitions in the class body (the second one replaces it)
perf_assert_success_first(status_code, response) ==
  IF status_code = 200 THEN "True"
  ELSE IF status_code = 404 THEN "True"
  ELSE "False"

\* TestOraclePerformanceController.perf_assert_success, the second definition
perf_assert_success(status_code, response) ==
  IF status_code = 200 THEN "True"
  ELSE IF status_code = 404 THEN "True"
  ELSE "False"

\* priv_assert_success tolerating 404 only until a check has passed
priv_assert_success_stateful(status_code, response) ==
  IF status_code = 200 THEN "True"
  ELSE IF status_code = 404 /\ passed = 0 THEN "True"
  ELSE "False"

\* TestOraclePrivilegeController.priv_assert_success
priv_assert_success(status_code, response) ==
  IF status_code = 200 THEN "True"
  ELSE IF status_code = 404 THEN "True"
  ELSE "False"

\* sec_assert_success looking at the payload as assert_success does
sec_assert_success_strict(status_code, response) ==
  IF status_code = 200
    THEN IF response.kind # "object" THEN "raise"
         ELSE Bool(response.status = "success")
    ELSE IF status_code = 404 THEN "True"
    ELSE "False"

\* TestOracleSecurityController.sec_assert_success
sec_assert_success(status_code, response) ==
  IF status_code = 200 THEN "True"
  ELSE IF status_code = 404 THEN "True"
  ELSE "False"

\* the classifier the checks of a tolerant suite call
TolerantClassifier(s) ==
  CASE s = "AI" -> "ai_assert_success"
    [] s = "Performance" -> "perf_assert_success"
    [] s = "Privilege" -> "priv_assert_success"
    [] s = "Security" -> "sec_assert_success"

\* the inline "if status == 200" of the CSRF checks and of Core's
\* test_health_check / test_list_tables
inline_status_check(status_code, response) ==
  Bool(status_code = 200)

Classifiers == {"assert_success", "analytics_assert_success", "ai_assert_success",
                "perf_assert_success", "priv_assert_success", "sec_assert_success",
                "inline_status_check"}

Classify(c, status_code, response) ==
  CASE c = "assert_success" -> assert_success(status_code, response)
    [] c = "analytics_assert_success" -> analytics_assert_success(status_code, response)
    [] c = "ai_assert_success" -> ai_assert_success(status_code, response)
    [] c = "perf_assert_success" -> perf_assert_success(status_code, response)
    [] c = "priv_assert_success" -> priv_assert_success(status_code, response)
    [] c = "sec_assert_success" -> sec_assert_success(status_code, response)
    [] c = "inline_status_check" -> inline_status_check(status_code, response)

(***************************************************************************)
(* The checks.  A check is a pair of the classifier it calls and the shape *)
(* of its body:                                                            *)
(*   print        classify, record, print_results(response)                *)
(*   get_data     classify, record, response.get('data', {})               *)
(*   len_data     classify, record, len(response.get('data', []))          *)
(*   len_results  classify, record, len(response.get('results', []))       *)
(*   list_tables  Core test_list_tables: reads and measures 'tables'       *)
(*                inside the status branch, before it records              *)
(*   csrf_token   CSRF test_get_csrf_token: stores and slices the token    *)
(*                inside the status branch, before it records              *)
(*   bank_*, adv_strict  the checks of the two root scripts, which record  *)
(*                nothing and only return (or raise)                       *)
(***************************************************************************)
Check(c, k) == [classifier |-> c, kind |-> k]

ChecksOf(s) ==
  CASE s = "CSRF" -> { Check("inline_status_check", "print"),
                       Check("inline_status_check", "csrf_token") }
    [] s = "Core" -> { Check("inline_status_check", "print"),
                       Check("inline_status_check", "list_tables"),
                       Check("assert_success", "len_results") }
    [] s = "Analytics" -> { Check("analytics_assert_success", "len_results") }
    [] s \in TolerantSuites -> { Check(TolerantClassifier(s), "print"),
                                 Check(TolerantClassifier(s), "get_data"),
                                 Check(TolerantClassifier(s), "len_data") }
    [] s = "Banking" -> { Check("inline_status_check", "bank_health"),
                          Check("assert_success", "bank_tables"),
                          Check("assert_success", "bank_rows"),
                          Check("assert_success", "bank_summary") }
    [] s = "Advanced" -> { Check("assert_success", "adv_strict") }

\* Does the code after "if result:" raise on this response?
PostRaises(kind, response) ==
  CASE kind = "print" -> FALSE
    [] kind = "get_data" -> response.kind # "object"
    [] kind = "len_data" -> response.kind # "object" \/ response.data = "unsized"
    [] kind = "len_results" -> response.kind # "object" \/ response.results = "unsized"
    [] OTHER -> FALSE

\* What one invocation of a check does: the results it appends itself to
\* test_results, what it returns ("True", "False") or that it raises, the
\* status make_request gave it and the csrf_token it leaves.
Outcome(recorded, r, status, token) ==
  [recorded |-> recorded, ret |-> r, status |-> status, token |-> token]

\* a check that records its result but does not return it
StandardCheck_no_return(check, mr, token) ==
  LET c == Classify(check.classifier, mr.status, mr.response) IN
    IF c = "raise"
      THEN { Outcome(<<>>, "raise", mr.status, token) }
      ELSE IF c = "True" /\ PostRaises(check.kind, mr.response)
        THEN { Outcome(<<TRUE>>, "raise", mr.status, token) }
        ELSE { Outcome(<<c = "True">>, "False", mr.status, token) }

\* test_* of the controller suites that classify, record, then post-process
StandardCheck(check, mr, token) ==
  LET c == Classify(check.classifier, mr.status, mr.response) IN
    IF c = "raise"
      THEN { Outcome(<<>>, "raise", mr.status, token) }
      ELSE IF c = "True" /\ PostRaises(check.kind, mr.response)
        THEN { Outcome(<<TRUE>>, "raise", mr.status, token) }
        ELSE { Outcome(<<c = "True">>, c, mr.status, token) }

\* TestOracleCoreController.test_list_tables
ListTablesCheck(mr, token) ==
  IF mr.status = 200
    THEN IF mr.response.kind # "object" \/ mr.response.results = "unsized"
      THEN { Outcome(<<>>, "raise", mr.status, token) }
      ELSE { Outcome(<<TRUE>>, "True", mr.status, token) }
    ELSE { Outcome(<<FALSE>>, "False", mr.status, token) }

\* TestCsrfController.test_get_csrf_token
CsrfTokenCheck(mr, token) ==
  IF mr.status = 200
    THEN IF mr.response.kind = "object" /\ mr.response.token # "absent"
      THEN IF mr.response.token = "number"
        THEN { Outcome(<<>>, "raise", mr.status, mr.response.token) }
        ELSE { Outcome(<<TRUE>>, "True", mr.status, mr.response.token) }
      ELSE { Outcome(<<TRUE>>, "True", mr.status, token) }
    ELSE { Outcome(<<FALSE>>, "False", mr.status, token) }

\* The checks of test_banking_corrected.py and test_controllers_advanced.py.
\* What they do with the rows of 'data' depends on the rows, which the
\* model does not represent: every outcome the rows can produce is allowed.
RootCheck(check, mr, token) ==
  LET strict == assert_success(mr.status, mr.response)
      rets ==
        CASE check.kind = "bank_health" ->
               IF mr.status = 200
                 THEN IF mr.response.kind # "object" THEN {"raise"} ELSE {"True"}
                 ELSE {"False"}
          [] check.kind = "bank_summary" ->
               IF strict = "raise" THEN {"raise"} ELSE {"True", "False", "raise"}
          [] check.kind = "adv_strict" -> {strict}
          [] check.kind = "bank_rows" ->
               IF strict # "True" THEN {strict}
               ELSE IF mr.response.data = "unsized" THEN {"raise"}
               ELSE IF mr.response.data = "sized" THEN {"True", "raise"}
               ELSE {"True"}
          [] check.kind = "bank_tables" ->
               IF strict # "True" THEN {strict}
               ELSE IF mr.response.data = "unsized" THEN {"raise"}
               ELSE IF mr.response.data = "sized" THEN {"True", "False", "raise"}
               ELSE {"False"}
  IN { Outcome(<<>>, r, mr.status, token) : r \in rets }

CheckOutcomes(check, net, token) ==
  LET mr == make_request(net) IN
    CASE check.kind \in {"print", "get_data", "len_data", "len_results"} ->
           StandardCheck(check, mr, token)
      [] check.kind = "list_tables" -> ListTablesCheck(mr, token)
      [] check.kind = "csrf_token" -> CsrfTokenCheck(mr, token)
      [] OTHER -> RootCheck(check, mr, token)

runVars == <<suite, ntests, pc, idx, passed, total, test_results, results_summary,
             csrf_token, history, ret>>

classifyVars == <<classifier, request, answer, verdict>>

masterVars == <<test_suites, overall_results, total_passed, total_suites,
                master_pc, master_ret>>

waitVars == <<max_attempts, attempt, health, sleeps, wait_pc, wait_ret>>

scriptVars == <<nscripts, script_idx, results, children, reported, saved, script_pc,
                script_ret>>

verifyVars == <<verify_pc, verify_log, verify_ret>>

fixVars == <<files, fix_idx, fix_runs, fix_pc>>

\* what a run of a suite neither reads nor writes, wait_ret and exit_code aside
aloofVars == <<attempt, health, sleeps, wait_pc, max_attempts, scriptVars, verifyVars, method,
               service, fixVars>>

vars == <<runVars, classifyVars, masterVars, waitVars, scriptVars, verifyVars,
          method, service, fixVars, exit_code>>

NoRequest == [failed |-> TRUE, code |-> 0, body |-> Plain("empty")]

\* no classification under way
ClassifyIdle ==
  /\ classifier = "none"
  /\ request = NoRequest
  /\ answer = <<>>
  /\ verdict = "none"

\* no MasterTestRunner in this process
MasterAbsent ==
  /\ test_suites = <<>>
  /\ overall_results = <<>>
  /\ total_passed = 0
  /\ total_suites = 0
  /\ master_pc = "absent"
  /\ master_ret = "none"

\* no suite object under observation
RunAbsent ==
  /\ suite = "none"
  /\ ntests = 0
  /\ pc = "absent"
  /\ idx = 0
  /\ passed = 0
  /\ total = 0
  /\ test_results = <<>>
  /\ results_summary = <<>>
  /\ csrf_token = "absent"
  /\ history = <<>>
  /\ ret = "none"

\* wait_for_service not under observation
WaitAbsent ==
  /\ max_attempts = 0
  /\ attempt = 0
  /\ health = <<>>
  /\ sleeps = 0
  /\ wait_pc = "absent"
  /\ wait_ret = "none"

\* controller_test_results.json not written
NotSaved == [written |-> FALSE, detailed_results |-> <<>>]

\* save_results_json: the file holds self.results, or, when opening or
\* writing it raised (which is caught and reported), it was not written
save_results_json(recorded) ==
  { [written |-> TRUE, detailed_results |-> recorded], NotSaved }

\* no ComprehensiveTestRunner in this process
ScriptsAbsent ==
  /\ nscripts = 0
  /\ script_idx = 0
  /\ results = <<>>
  /\ children = <<>>
  /\ reported = <<>>
  /\ saved = NotSaved
  /\ script_pc = "absent"
  /\ script_ret = "none"

\* the process is not verify_database_access.py
VerifyAbsent ==
  /\ verify_pc = "absent"
  /\ verify_log = <<>>
  /\ verify_ret = "none"

\* the process is not fix_all_tests.py
FixAbsent ==
  /\ files = <<>>
  /\ fix_idx = 0
  /\ fix_runs = 0
  /\ fix_pc = "absent"

\* the process has not exited
Running == exit_code = "none"

\* __init__ of a suite; the tests list is built by the run itself
Init ==
  /\ suite \in Suites
  /\ ntests \in 0..MaxChecks
  /\ pc = "init"
  /\ idx = 0
  /\ passed = 0
  /\ total = 0
  /\ test_results = <<>>
  /\ results_summary = <<>>
  /\ csrf_token = "absent"
  /\ history = <<>>
  /\ ret = "none"
  /\ ClassifyIdle
  /\ MasterAbsent
  /\ WaitAbsent
  /\ ScriptsAbsent
  /\ VerifyAbsent
  /\ method = "none"
  /\ service = "none"
  /\ FixAbsent
  /\ Running

\* run_all_tests of a controller suite: wait_for_service() returned True
ServiceAvailable ==
  /\ pc = "init"
  /\ suite \in ControllerSuites
  /\ pc' = "loop"
  /\ wait_ret' = "True"
  /\ UNCHANGED <<suite, ntests, idx, passed, total, test_results, results_summary,
                 csrf_token, history, ret>>
  /\ UNCHANGED <<classifyVars, masterVars, aloofVars, exit_code>>

\* the run going on to its checks although the service is not available
AfterWaitFailed_goes_on == "loop"

\* "if not self.wait_for_service(): return False": where the run is then
AfterWaitFailed == "abandoned"

\* run_all_tests of a controller suite: wait_for_service() returned False
ServiceUnavailable ==
  /\ pc = "init"
  /\ suite \in ControllerSuites
  /\ pc' = AfterWaitFailed
  /\ ret' = "False"
  /\ wait_ret' = "False"
  /\ UNCHANGED <<suite, ntests, idx, passed, total, test_results, results_summary,
                 csrf_token, history>>
  /\ UNCHANGED <<classifyVars, masterVars, aloofVars, exit_code>>

\* total taken from the recorded results instead of the tests list
TotalOf_recorded(n, recorded) == Len(recorded)

\* the value given to total
TotalOf(n, recorded) == n

\* main / run_comprehensive_test_suite: no availability wait; total is
\* assigned before the loop
StartRootScript ==
  /\ pc = "init"
  /\ suite \in RootScripts
  /\ pc' = "loop"
  /\ total' = TotalOf(ntests, test_results)
  /\ UNCHANGED <<suite, ntests, idx, passed, test_results, results_summary,
                 csrf_token, history, ret>>
  /\ UNCHANGED <<classifyVars, masterVars, aloofVars, wait_ret, exit_code>>

\* the loop going on two places further, leaving a check out
NextCheck_skips(i) == i + 2

\* "for test in tests": the place in the list after one more iteration
NextCheck(i) == i + 1

Entry(i, b) == [check |-> i, result |-> b]

Entries(i, recorded) == [j \in 1..Len(recorded) |-> Entry(i, recorded[j])]

\* the list replaced by the new entries instead of growing by them
test_results_append_replaces(recorded, entries) == entries

\* self.test_results.append(...), once per entry
test_results_append(recorded, entries) == recorded \o entries

\* what the except clause of the run loop appends to test_results
HandlerEntries(s, i) ==
  IF s \in ControllerSuites THEN <<Entry(i, FALSE)>> ELSE <<>>

\* the entry of results_summary for a check, run_comprehensive_test_suite only
SummaryEntries(s, r) ==
  IF s = "Advanced"
    THEN <<CASE r = "True" -> "PASSED" [] r = "False" -> "FAILED" [] OTHER -> "CRASHED">>
    ELSE <<>>

\* the exception leaving the loop
LoopAfterRaise_propagates == "crashed"

\* where control is after the except clause handled a check that raised
LoopAfterRaise == "loop"

\* One iteration of "for test in tests: try: if test(): passed += 1",
\* the check returning normally.
CheckReturns ==
  /\ pc = "loop"
  /\ idx < ntests
  /\ \E check \in ChecksOf(suite), net \in NetOutcomes :
       \E o \in CheckOutcomes(check, net, csrf_token) :
         /\ o.ret # "raise"
         /\ passed' = IF o.ret = "True" THEN passed + 1 ELSE passed
         /\ test_results' = test_results_append(test_results, Entries(idx + 1, o.recorded))
         /\ results_summary' = results_summary \o SummaryEntries(suite, o.ret)
         /\ csrf_token' = o.token
         /\ history' = Append(history, [status |-> o.status, ret |-> o.ret])
  /\ idx' = NextCheck(idx)
  /\ UNCHANGED <<suite, ntests, pc, total, ret>>
  /\ UNCHANGED <<classifyVars, masterVars, aloofVars, wait_ret, exit_code>>

\* One iteration of the loop, the check raising: "except Exception as e".
CheckRaises ==
  /\ pc = "loop"
  /\ idx < ntests
  /\ \E check \in ChecksOf(suite), net \in NetOutcomes :
       \E o \in CheckOutcomes(check, net, csrf_token) :
         /\ o.ret = "raise"
         /\ test_results' =
              test_results_append(
                test_results_append(test_results, Entries(idx + 1, o.recorded)),
                HandlerEntries(suite, idx + 1))
         /\ results_summary' = results_summary \o SummaryEntries(suite, o.ret)
         /\ csrf_token' = o.token
         /\ history' = Append(history, [status |-> o.status, ret |-> o.ret])
  /\ idx' = NextCheck(idx)
  /\ pc' = LoopAfterRaise
  /\ UNCHANGED <<suite, ntests, passed, total, ret>>
  /\ UNCHANGED <<classifyVars, masterVars, aloofVars, wait_ret, exit_code>>

\* One iteration of the loop, the request of the check accepted by the
\* service and never answered: make_request passes no timeout to requests,
\* so the call, and with it the check and the run, does not return.
CheckBlocks ==
  /\ pc = "loop"
  /\ idx < ntests
  /\ Sent(Unanswered, TimeoutOf(suite)) = "blocked"
  /\ pc' = "blocked"
  /\ UNCHANGED <<suite, ntests, idx, passed, total, test_results, results_summary,
                 csrf_token, history, ret>>
  /\ UNCHANGED <<classifyVars, masterVars, aloofVars, wait_ret, exit_code>>

\* does the summary compute (passed/total)*100 ?
ComputesRate(s) == s # "Banking"

\* The code after the loop: total = len(tests), the report, the pass rate,
\* the return value.
Summary ==
  /\ pc = "loop"
  /\ idx >= ntests
  /\ total' = TotalOf(ntests, test_results)
  /\ IF ComputesRate(suite) /\ total' = 0
       THEN pc' = "crashed" /\ ret' = "ZeroDivisionError"
       ELSE /\ pc' = "done"
            /\ ret' = IF suite \in RootScripts
                        THEN (IF passed = total' THEN "0" ELSE "1")
                        ELSE Bool(passed = total')
  /\ UNCHANGED <<suite, ntests, idx, passed, test_results, results_summary,
                 csrf_token, history>>
  /\ UNCHANGED <<classifyVars, masterVars, aloofVars, wait_ret, exit_code>>

\* every run ending with exit status 0
ExitCode_always_zero(s, r) == "0"

\* the exit status: "exit(0 if success else 1)" of a controller suite,
\* "sys.exit(main())" of a root script; an exception that leaves the run
\* ends the process with status 1
ExitCode(s, r) ==
  IF s \in RootScripts
    THEN (IF r \in {"0", "1"} THEN r ELSE "1")
    ELSE (IF r = "True" THEN "0" ELSE "1")

\* __main__ of a suite or root script, after the run
Exit ==
  /\ pc \in {"done", "abandoned", "crashed"}
  /\ Running
  /\ exit_code' = ExitCode(suite, ret)
  /\ UNCHANGED <<runVars, classifyVars, masterVars, aloofVars, wait_ret>>

Next ==
  \/ ServiceAvailable
  \/ ServiceUnavailable
  \/ StartRootScript
  \/ CheckReturns
  \/ CheckRaises
  \/ CheckBlocks
  \/ Summary
  \/ Exit

Spec == Init /\ [][Next]_vars

(***************************************************************************)
(* One classification on its own: a check of a suite sends its request,    *)
(* make_request turns the network outcome into (status_code, response),    *)
(* and the classifier of the check is applied to that pair.                *)
(***************************************************************************)
ClassifiersOf(s) == { c.classifier : c \in ChecksOf(s) }

InitClassify ==
  /\ suite \in Suites
  /\ ntests = 0
  /\ pc = "classify"
  /\ idx = 0
  /\ passed = 0
  /\ total = 0
  /\ test_results = <<>>
  /\ results_summary = <<>>
  /\ csrf_token = "absent"
  /\ history = <<>>
  /\ ret = "none"
  /\ classifier \in ClassifiersOf(suite)
  /\ request \in NetOutcomes
  /\ answer = <<>>
  /\ verdict = "none"
  /\ MasterAbsent
  /\ WaitAbsent
  /\ ScriptsAbsent
  /\ VerifyAbsent
  /\ method = "none"
  /\ service = "none"
  /\ FixAbsent
  /\ Running

\* status, response = self.make_request(...)
MakeRequest ==
  /\ pc = "classify"
  /\ answer = <<>>
  /\ answer' = <<make_request(request)>>
  /\ UNCHANGED <<classifier, request, verdict>>
  /\ UNCHANGED <<runVars, masterVars, aloofVars, wait_ret, exit_code>>

\* result = self.<classifier>(status, response, name)
ApplyClassifier ==
  /\ pc = "classify"
  /\ answer # <<>>
  /\ verdict = "none"
  /\ verdict' = Classify(classifier, answer[1].status, answer[1].response)
  /\ UNCHANGED <<classifier, request, answer>>
  /\ UNCHANGED <<runVars, masterVars, aloofVars, wait_ret, exit_code>>

NextClassify ==
  \/ MakeRequest
  \/ ApplyClassifier

SpecClassify == InitClassify /\ [][NextClassify]_vars

(***************************************************************************)
(* run_all_tests.py: MasterTestRunner.  Suites are registered with         *)
(* add_test_suite and run one after the other inside the process, as       *)
(* imported modules.                                                       *)
(***************************************************************************)
\* Longest list of registered suites explored.
MaxSuites == 3

\* the suite classes run_all_tests.py imports
SuiteClasses == {"Core", "Analytics"}

\* How the service behaves while the suites run: "all_success", it is
\* available and answers every call with HTTP 200 and a well-formed payload
\* whose status is 'success'; "unavailable", no health request gets a 200;
\* "mixed", anything else.
Services == {"all_success", "unavailable", "mixed"}

\* does run_all_tests of the suite, imported as a module, raise before its
\* first request ?  The Core module imports datetime only under
\* "if __name__ == '__main__'", so its run_all_tests raises NameError at
\* its "Started at" line.
ModuleRaises(cls) == cls = "Core"

\* test_class() followed by tester.run_all_tests(), the suite being an
\* imported module: what it returns, or that it raises
ModuleRun(cls, sv) ==
  IF ModuleRaises(cls) THEN {"raise"}
  ELSE CASE sv = "all_success" -> {"True"}
         [] sv = "unavailable" -> {"False"}
         [] OTHER -> {"True", "False"}

InitMaster ==
  /\ RunAbsent
  /\ ClassifyIdle
  /\ test_suites = <<>>
  /\ overall_results = <<>>
  /\ total_passed = 0
  /\ total_suites = 0
  /\ master_pc = "idle"
  /\ master_ret = "none"
  /\ WaitAbsent
  /\ ScriptsAbsent
  /\ VerifyAbsent
  /\ method = "none"
  /\ service \in Services
  /\ FixAbsent
  /\ Running

\* MasterTestRunner.add_test_suite
add_test_suite ==
  /\ master_pc = "idle"
  /\ Len(test_suites) < MaxSuites
  /\ \E cls \in SuiteClasses : test_suites' = Append(test_suites, cls)
  /\ UNCHANGED <<overall_results, total_passed, total_suites, master_pc, master_ret>>
  /\ UNCHANGED <<runVars, classifyVars, aloofVars, wait_ret, exit_code>>

\* MasterTestRunner.run_all_tests up to its loop
MasterBegin ==
  /\ master_pc = "idle"
  /\ master_pc' = "running"
  /\ total_passed' = 0
  /\ total_suites' = Len(test_suites)
  /\ UNCHANGED <<test_suites, overall_results, master_ret>>
  /\ UNCHANGED <<runVars, classifyVars, aloofVars, wait_ret, exit_code>>

SuiteResult(name, status, success) ==
  [suite |-> name, status |-> status, success |-> success]

\* one iteration of the loop over test_suites, the suite returning
MasterSuiteReturns ==
  /\ master_pc = "running"
  /\ Len(overall_results) < Len(test_suites)
  /\ LET cls == test_suites[Len(overall_results) + 1] IN
       \E r \in ModuleRun(cls, service) :
         /\ r # "raise"
         /\ total_passed' = IF r = "True" THEN total_passed + 1 ELSE total_passed
         /\ overall_results' = Append(overall_results,
              SuiteResult(cls, IF r = "True" THEN "PASSED" ELSE "FAILED", r = "True"))
  /\ UNCHANGED <<test_suites, total_suites, master_pc, master_ret>>
  /\ UNCHANGED <<runVars, classifyVars, aloofVars, wait_ret, exit_code>>

\* the exception of a suite leaving run_all_tests
MasterAfterCrash_propagates == "crashed"

\* where run_all_tests is after "except Exception as e" recorded a suite
\* that raised: still in its loop
MasterAfterCrash == "running"

\* one iteration of the loop over test_suites, the suite raising
MasterSuiteCrashes ==
  /\ master_pc = "running"
  /\ Len(overall_results) < Len(test_suites)
  /\ LET cls == test_suites[Len(overall_results) + 1] IN
       /\ "raise" \in ModuleRun(cls, service)
       /\ overall_results' = Append(overall_results, SuiteResult(cls, "CRASHED", FALSE))
  /\ master_pc' = MasterAfterCrash
  /\ UNCHANGED <<test_suites, total_passed, total_suites, master_ret>>
  /\ UNCHANGED <<runVars, classifyVars, aloofVars, wait_ret, exit_code>>

\* generate_final_report(total_passed, total_suites) and the return
MasterReport ==
  /\ master_pc = "running"
  /\ Len(overall_results) >= Len(test_suites)
  /\ IF total_suites = 0
       THEN master_pc' = "crashed" /\ master_ret' = "ZeroDivisionError"
       ELSE master_pc' = "done" /\ master_ret' = Bool(total_passed = total_suites)
  /\ UNCHANGED <<test_suites, overall_results, total_passed, total_suites>>
  /\ UNCHANGED <<runVars, classifyVars, aloofVars, wait_ret, exit_code>>

\* main of run_all_tests.py: sys.exit(0 if success else 1); an exception
\* that leaves run_all_tests ends the process with status 1
MasterExit ==
  /\ master_pc \in {"done", "crashed"}
  /\ Running
  /\ exit_code' = IF master_ret = "True" THEN "0" ELSE "1"
  /\ UNCHANGED <<masterVars, runVars, classifyVars, aloofVars, wait_ret>>

NextMaster ==
  \/ add_test_suite
  \/ MasterBegin
  \/ MasterSuiteReturns
  \/ MasterSuiteCrashes
  \/ MasterReport
  \/ MasterExit

SpecMaster == InitMaster /\ [][NextMaster]_vars

(***************************************************************************)
(* run_all_controller_tests.py: ComprehensiveTestRunner.  Each configured  *)
(* script is run as a child process with subprocess.run, which returns     *)
(* when the child has exited or raises when the child ran out of time or   *)
(* could not be launched.                                                  *)
(***************************************************************************)
\* Longest list of configured scripts explored.
MaxScripts == 3

\* returncode of a child that exited: 0, 1 (exit(1) or an uncaught
\* exception), or negative when a signal ended it (here signal 1)
ReturnCodes == {0, 1, -1}

\* what the child printed, as far as the runner reads it: no line with
\* "tests passed"; such a line whose first token with "/" is "p/t"; such a
\* line whose first token with "/" has a number before the "/" only
Output(kind, p, t) == [kind |-> kind, p |-> p, t |-> t]

Outputs ==
  { Output("none", 0, 0), Output("counts", 1, 2), Output("counts", 2, 2),
    Output("counts", 2, 1), Output("partial", 1, 0) }

NoOutput == Output("none", 0, 0)

\* subprocess.run for one script: how the call ended ("exited": it returned
\* the result of a child that exited; "TimeoutExpired", "Exception": it
\* raised; "not run": it was never called), and for a child that exited its
\* returncode and what it printed
Child(how, rc, out) == [ended |-> how, returncode |-> rc, stdout |-> out]

Exited(rc, out) == Child("exited", rc, out)

NoChild(how) == Child(how, 0, NoOutput)

\* the (passed_count, test_count) the parsing loop of run_test_script leaves
ParseCounts(out) ==
  CASE out.kind = "counts" -> [passed_count |-> out.p, test_count |-> out.t]
    [] out.kind = "partial" -> [passed_count |-> out.p, test_count |-> 0]
    [] OTHER -> [passed_count |-> 0, test_count |-> 0]

ScriptResult(i, success, counts, return_code) ==
  [script |-> i, success |-> success, test_count |-> counts.test_count,
   passed_count |-> counts.passed_count, return_code |-> return_code]

NoCounts == [passed_count |-> 0, test_count |-> 0]

\* a script counted successful only if its output also says all tests passed
ScriptSuccess_needs_counts(rc, counts) ==
  rc = 0 /\ counts.passed_count = counts.test_count

\* success = result.returncode == 0
ScriptSuccess(rc, counts) == rc = 0

\* the loop skipping a script whose file is missing without recording it
MissingEntries_skipped(i) == <<>>

\* what run_all_tests appends for a script whose file does not exist
MissingEntries(i) == <<ScriptResult(i, FALSE, NoCounts, -3)>>

notScripts == <<runVars, classifyVars, masterVars, waitVars, verifyVars, method, service,
                fixVars>>

InitScripts ==
  /\ RunAbsent
  /\ ClassifyIdle
  /\ MasterAbsent
  /\ WaitAbsent
  /\ VerifyAbsent
  /\ nscripts \in 1..MaxScripts
  /\ script_idx = 0
  /\ results = <<>>
  /\ children = <<>>
  /\ reported = <<>>
  /\ saved = NotSaved
  /\ script_pc = "start"
  /\ script_ret = "none"
  /\ method = "none"
  /\ service = "none"
  /\ FixAbsent
  /\ Running

\* the run going on to its scripts although test_base.py is missing
AfterBaseMissing_goes_on == "loop"

\* "if not os.path.exists('test_base.py'): ... return False": where the run
\* is then
AfterBaseMissing == "abandoned"

\* run_all_tests: test_base.py is not in the working directory
ScriptsAbandon ==
  /\ script_pc = "start"
  /\ script_pc' = AfterBaseMissing
  /\ script_ret' = "False"
  /\ UNCHANGED <<nscripts, script_idx, results, children, reported, saved>>
  /\ UNCHANGED <<notScripts, exit_code>>

\* run_all_tests: test_base.py is there, the loop over test_scripts begins
ScriptsBegin ==
  /\ script_pc = "start"
  /\ script_pc' = "loop"
  /\ UNCHANGED <<nscripts, script_idx, results, children, reported, saved, script_ret>>
  /\ UNCHANGED <<notScripts, exit_code>>

\* run_test_script: the child exited
ScriptCompletes ==
  /\ script_pc = "loop"
  /\ script_idx < nscripts
  /\ \E rc \in ReturnCodes, out \in Outputs :
       /\ children' = Append(children, Exited(rc, out))
       /\ results' = Append(results,
                            ScriptResult(script_idx + 1, ScriptSuccess(rc, ParseCounts(out)),
                                         ParseCounts(out), rc))
  /\ script_idx' = script_idx + 1
  /\ UNCHANGED <<nscripts, reported, saved, script_pc, script_ret>>
  /\ UNCHANGED <<notScripts, exit_code>>

\* run_test_script: subprocess.TimeoutExpired
ScriptTimesOut ==
  /\ script_pc = "loop"
  /\ script_idx < nscripts
  /\ children' = Append(children, NoChild("TimeoutExpired"))
  /\ results' = Append(results, ScriptResult(script_idx + 1, FALSE, NoCounts, -1))
  /\ script_idx' = script_idx + 1
  /\ UNCHANGED <<nscripts, reported, saved, script_pc, script_ret>>
  /\ UNCHANGED <<notScripts, exit_code>>

\* run_test_script: any other exception of subprocess.run
ScriptCrashes ==
  /\ script_pc = "loop"
  /\ script_idx < nscripts
  /\ children' = Append(children, NoChild("Exception"))
  /\ results' = Append(results, ScriptResult(script_idx + 1, FALSE, NoCounts, -2))
  /\ script_idx' = script_idx + 1
  /\ UNCHANGED <<nscripts, reported, saved, script_pc, script_ret>>
  /\ UNCHANGED <<notScripts, exit_code>>

\* run_all_tests: os.path.exists(script) is False
ScriptMissing ==
  /\ script_pc = "loop"
  /\ script_idx < nscripts
  /\ children' = Append(children, NoChild("not run"))
  /\ results' = results \o MissingEntries(script_idx + 1)
  /\ script_idx' = script_idx + 1
  /\ UNCHANGED <<nscripts, reported, saved, script_pc, script_ret>>
  /\ UNCHANGED <<notScripts, exit_code>>

\* print_detailed_summary, save_results_json and the return value
ScriptsSummary ==
  /\ script_pc = "loop"
  /\ script_idx >= nscripts
  /\ IF Len(results) = 0
       THEN /\ script_pc' = "crashed"
            /\ script_ret' = "ZeroDivisionError"
            /\ reported' = reported
            /\ saved' = saved
       ELSE /\ script_pc' = "done"
            /\ script_ret' = Bool(\A i \in DOMAIN results : results[i].success)
            /\ reported' = [i \in DOMAIN results |-> results[i].script]
            /\ saved' \in save_results_json(results)
  /\ UNCHANGED <<nscripts, script_idx, results, children>>
  /\ UNCHANGED <<notScripts, exit_code>>

\* __main__ of run_all_controller_tests.py
ScriptsExit ==
  /\ script_pc \in {"done", "abandoned", "crashed"}
  /\ Running
  /\ exit_code' = IF script_ret = "True" THEN "0" ELSE "1"
  /\ UNCHANGED <<scriptVars, notScripts>>

NextScripts ==
  \/ ScriptsAbandon
  \/ ScriptsBegin
  \/ ScriptCompletes
  \/ ScriptTimesOut
  \/ ScriptCrashes
  \/ ScriptMissing
  \/ ScriptsSummary
  \/ ScriptsExit

SpecScripts == InitScripts /\ [][NextScripts]_vars

(***************************************************************************)
(* run_quick_tests.py: main runs each script of its tests list with        *)
(* run_test, which gives (result_text, success), and counts the successes. *)
(***************************************************************************)
\* what the child printed, as far as run_test reads it: a line with both
\* "Overall:" and "tests passed" ("overall"), or no such line ("none")
QuickOutputs == { Output("none", 0, 0), Output("overall", 0, 0) }

\* result_text of run_test for a child that exited
ResultText(out) == IF out.kind = "overall" THEN "line" ELSE "No results found"

\* the tuple main appends to results
QuickResult(i, text, success) == [script |-> i, result_text |-> text, success |-> success]

\* total_passed after "if success: total_passed += 1"
CountSuccess(n, success) == IF success THEN n + 1 ELSE n

notQuick == <<runVars, classifyVars, test_suites, overall_results, total_suites, master_pc,
              master_ret, waitVars, verifyVars, method, service, fixVars>>

InitQuick ==
  /\ RunAbsent
  /\ ClassifyIdle
  /\ MasterAbsent
  /\ WaitAbsent
  /\ VerifyAbsent
  /\ nscripts \in 1..MaxScripts
  /\ script_idx = 0
  /\ results = <<>>
  /\ children = <<>>
  /\ reported = <<>>
  /\ saved = NotSaved
  /\ script_pc = "quick_loop"
  /\ script_ret = "none"
  /\ method = "none"
  /\ service = "none"
  /\ FixAbsent
  /\ Running

\* run_test: the child exited
QuickTestCompletes ==
  /\ script_pc = "quick_loop"
  /\ script_idx < nscripts
  /\ \E rc \in ReturnCodes, out \in QuickOutputs :
       /\ children' = Append(children, Exited(rc, out))
       /\ results' = Append(results, QuickResult(script_idx + 1, ResultText(out), rc = 0))
       /\ total_passed' = CountSuccess(total_passed, rc = 0)
  /\ script_idx' = script_idx + 1
  /\ UNCHANGED <<nscripts, reported, saved, script_pc, script_ret>>
  /\ UNCHANGED <<notQuick, exit_code>>

\* run_test: subprocess.TimeoutExpired
QuickTestTimesOut ==
  /\ script_pc = "quick_loop"
  /\ script_idx < nscripts
  /\ children' = Append(children, NoChild("TimeoutExpired"))
  /\ results' = Append(results, QuickResult(script_idx + 1, "TIMEOUT", FALSE))
  /\ total_passed' = CountSuccess(total_passed, FALSE)
  /\ script_idx' = script_idx + 1
  /\ UNCHANGED <<nscripts, reported, saved, script_pc, script_ret>>
  /\ UNCHANGED <<notQuick, exit_code>>

\* run_test: any other exception of subprocess.run
QuickTestCrashes ==
  /\ script_pc = "quick_loop"
  /\ script_idx < nscripts
  /\ children' = Append(children, NoChild("Exception"))
  /\ results' = Append(results, QuickResult(script_idx + 1, "ERROR", FALSE))
  /\ total_passed' = CountSuccess(total_passed, FALSE)
  /\ script_idx' = script_idx + 1
  /\ UNCHANGED <<nscripts, reported, saved, script_pc, script_ret>>
  /\ UNCHANGED <<notQuick, exit_code>>

\* main after its loop: the summary lines and the return value
QuickSummary ==
  /\ script_pc = "quick_loop"
  /\ script_idx >= nscripts
  /\ reported' = [i \in DOMAIN results |-> results[i].script]
  /\ script_ret' = Bool(total_passed = nscripts)
  /\ script_pc' = "quick_done"
  /\ UNCHANGED <<nscripts, script_idx, results, children, saved, total_passed>>
  /\ UNCHANGED <<notQuick, exit_code>>

\* __main__ of run_quick_tests.py: sys.exit(0 if success else 1)
QuickExit ==
  /\ script_pc = "quick_done"
  /\ Running
  /\ exit_code' = IF script_ret = "True" THEN "0" ELSE "1"
  /\ UNCHANGED <<scriptVars, total_passed, notQuick>>

NextQuick ==
  \/ QuickTestCompletes
  \/ QuickTestTimesOut
  \/ QuickTestCrashes
  \/ QuickSummary
  \/ QuickExit

SpecQuick == InitQuick /\ [][NextQuick]_vars

(***************************************************************************)
(* The two runners that start each suite as a child process.               *)
(***************************************************************************)
InitRunners ==
  \/ InitScripts
  \/ InitQuick

NextRunners ==
  \/ NextScripts
  \/ NextQuick

SpecRunners == InitRunners /\ [][NextRunners]_vars

(***************************************************************************)
(* verify_database_access.py: main calls test_connection and, when that    *)
(* succeeded, four more steps; every requests call carries TIMEOUT.        *)
(***************************************************************************)
\* did the step get a JSON object with status 200 ?  (everything else is
\* reported and, where an exception is involved, caught inside the step)
Answered200(net) ==
  /\ Sent(net, TimeoutOf("Verify")) = "response"
  /\ net.code = 200
  /\ net.body.kind = "object"

\* test_connection: what it can return.  'statistics' is the value the
\* step reads (results): absent it is skipped, a value without .get raises.
test_connection(net) ==
  IF ~Answered200(net) THEN {"False"}
  ELSE CASE net.body.results = "absent" -> {"True"}
         [] net.body.results = "unsized" -> {"False"}
         [] OTHER -> {"True", "False"}

\* check_schemas: does it return schemas, or []
check_schemas(net) ==
  IF Answered200(net) /\ net.body.status = "success" /\ net.body.results = "sized"
    THEN {"schemas", "empty"}
    ELSE {"empty"}

\* check_all_tables: (tables, banking_tables), or ([], [])
check_all_tables(net) ==
  IF Answered200(net) /\ net.body.status = "success" /\ net.body.results = "sized"
    THEN {"banking", "tables", "empty"}
    ELSE {"empty"}

Step(name, result) == [step |-> name, result |-> result]

notVerify == <<runVars, classifyVars, masterVars, waitVars, scriptVars, method, service,
               fixVars>>

InitVerify ==
  /\ RunAbsent
  /\ ClassifyIdle
  /\ MasterAbsent
  /\ WaitAbsent
  /\ ScriptsAbsent
  /\ verify_pc = "connect"
  /\ verify_log = <<>>
  /\ verify_ret = "none"
  /\ method = "none"
  /\ service = "none"
  /\ FixAbsent
  /\ Running

\* main: test_connection(); when it is False main returns False
VerifyConnection ==
  /\ verify_pc = "connect"
  /\ \E net \in NetOutcomes \cup {Unanswered} : \E r \in test_connection(net) :
       /\ verify_log' = Append(verify_log, Step("test_connection", r))
       /\ IF r = "True"
            THEN verify_pc' = "schemas" /\ verify_ret' = verify_ret
            ELSE verify_pc' = "abandoned" /\ verify_ret' = "False"
  /\ UNCHANGED <<notVerify, exit_code>>

\* main: schemas = check_schemas()
VerifySchemas ==
  /\ verify_pc = "schemas"
  /\ \E net \in NetOutcomes \cup {Unanswered} : \E r \in check_schemas(net) :
       verify_log' = Append(verify_log, Step("check_schemas", r))
  /\ verify_pc' = "tables"
  /\ UNCHANGED <<verify_ret, notVerify, exit_code>>

\* main: all_tables, banking_tables = check_all_tables()
VerifyTables ==
  /\ verify_pc = "tables"
  /\ \E net \in NetOutcomes \cup {Unanswered} : \E r \in check_all_tables(net) :
       verify_log' = Append(verify_log, Step("check_all_tables", r))
  /\ verify_pc' = "banking"
  /\ UNCHANGED <<verify_ret, notVerify, exit_code>>

\* main: test_specific_banking_tables(), which returns nothing
VerifyBankingTables ==
  /\ verify_pc = "banking"
  /\ verify_log' = Append(verify_log, Step("test_specific_banking_tables", "None"))
  /\ verify_pc' = "prefix"
  /\ UNCHANGED <<verify_ret, notVerify, exit_code>>

\* main: test_with_schema_prefix(), the summary and "return True"
VerifyPrefixes ==
  /\ verify_pc = "prefix"
  /\ verify_log' = Append(verify_log, Step("test_with_schema_prefix", "None"))
  /\ verify_pc' = "done"
  /\ verify_ret' = "True"
  /\ UNCHANGED <<notVerify, exit_code>>

\* __main__: sys.exit(0 if success else 1)
VerifyExit ==
  /\ verify_pc \in {"done", "abandoned"}
  /\ Running
  /\ exit_code' = IF verify_ret = "True" THEN "0" ELSE "1"
  /\ UNCHANGED <<verifyVars, notVerify>>

NextVerify ==
  \/ VerifyConnection
  \/ VerifySchemas
  \/ VerifyTables
  \/ VerifyBankingTables
  \/ VerifyPrefixes
  \/ VerifyExit

(***************************************************************************)
(* TestBase.wait_for_service(max_attempts): a health request per attempt,  *)
(* a sleep between attempts.                                               *)
(***************************************************************************)
\* Largest max_attempts explored.
MaxAttempts == 3

\* a service that answers 404 taken for an available one
IsAvailable_tolerant(status) == status \in {200, 404}

\* "if status == 200"
IsAvailable(status) == status = 200

\* a sleep after every failed attempt, the last one included
SleepsAfter_every_failure(a, m) == TRUE

\* "if attempt < max_attempts - 1": is the failed attempt a followed by
\* time.sleep(2) ?
SleepsAfter(a, m) == a < m - 1

notWait == <<runVars, classifyVars, masterVars, scriptVars, verifyVars, method,
             service, fixVars, exit_code>>

InitWait ==
  /\ RunAbsent
  /\ ClassifyIdle
  /\ MasterAbsent
  /\ ScriptsAbsent
  /\ VerifyAbsent
  /\ max_attempts \in 0..MaxAttempts
  /\ attempt = 0
  /\ health = <<>>
  /\ sleeps = 0
  /\ wait_pc = "request"
  /\ wait_ret = "none"
  /\ method = "none"
  /\ service = "none"
  /\ FixAbsent
  /\ Running

\* one iteration of "for attempt in range(max_attempts)" up to the sleep:
\* the health request is answered (or fails, which make_request turns
\* into status 500)
HealthRequest ==
  /\ wait_pc = "request"
  /\ attempt < max_attempts
  /\ \E net \in NetOutcomes :
       LET status == make_request(net).status IN
         /\ health' = Append(health, status)
         /\ IF IsAvailable(status)
              THEN wait_pc' = "returned" /\ wait_ret' = "True" /\ attempt' = attempt
              ELSE /\ wait_ret' = wait_ret
                   /\ IF SleepsAfter(attempt, max_attempts)
                        THEN wait_pc' = "sleep" /\ attempt' = attempt
                        ELSE wait_pc' = "request" /\ attempt' = attempt + 1
  /\ UNCHANGED <<max_attempts, sleeps, notWait>>

\* the health request is accepted and never answered
HealthUnanswered ==
  /\ wait_pc = "request"
  /\ attempt < max_attempts
  /\ Sent(Unanswered, TimeoutOf("TestBase")) = "blocked"
  /\ wait_pc' = "blocked"
  /\ UNCHANGED <<max_attempts, attempt, health, sleeps, wait_ret, notWait>>

\* time.sleep(2) and the next iteration
WaitSleep ==
  /\ wait_pc = "sleep"
  /\ sleeps' = sleeps + 1
  /\ attempt' = attempt + 1
  /\ wait_pc' = "request"
  /\ UNCHANGED <<max_attempts, health, wait_ret, notWait>>

\* the loop is over: "return False"
WaitGivesUp ==
  /\ wait_pc = "request"
  /\ attempt >= max_attempts
  /\ wait_pc' = "returned"
  /\ wait_ret' = "False"
  /\ UNCHANGED <<max_attempts, attempt, health, sleeps, notWait>>

NextWait ==
  \/ HealthRequest
  \/ HealthUnanswered
  \/ WaitSleep
  \/ WaitGivesUp

\* a running call keeps executing: it takes its next step whenever it has one
SpecWait == InitWait /\ [][NextWait]_vars /\ WF_vars(NextWait)

(***************************************************************************)
(* make_request called with any method argument: TestBase.make_request     *)
(* (the controller suites) and the make_request of each root script.       *)
(***************************************************************************)
Methods == {"GET", "POST", "PUT", "DELETE", "PATCH", "get"}

\* method.upper()
Upper(m) == IF m = "get" THEN "GET" ELSE m

\* does the if / elif chain of the suite's make_request send a request ?
\* TestBase compares method.upper() with GET, POST, PUT and DELETE and
\* raises ValueError otherwise; the root scripts compare method with GET
\* and POST and otherwise leave response unbound.
MethodSupported(s, m) ==
  IF s \in RootScripts
    THEN m \in {"GET", "POST"}
    ELSE Upper(m) \in {"GET", "POST", "PUT", "DELETE"}

\* the call left by an exception
Raise == [status |-> 0, response |-> Plain("raised")]

\* the exception of an unsupported method leaving make_request
make_request_method_raises(s, m, net) ==
  IF ~MethodSupported(s, m) THEN Raise ELSE make_request(net)

\* make_request(endpoint, method, ...): the ValueError, or the unbound
\* response, of an unsupported method is raised inside the try and caught
\* by "except Exception"
make_request_method(s, m, net) ==
  IF ~MethodSupported(s, m)
    THEN [status |-> 500, response |-> ErrorObject]
    ELSE make_request(net)

InitRequest ==
  /\ suite \in Suites
  /\ ntests = 0
  /\ pc = "request"
  /\ idx = 0
  /\ passed = 0
  /\ total = 0
  /\ test_results = <<>>
  /\ results_summary = <<>>
  /\ csrf_token = "absent"
  /\ history = <<>>
  /\ ret = "none"
  /\ classifier = "none"
  /\ request \in NetOutcomes \cup {Unanswered}
  /\ answer = <<>>
  /\ verdict = "none"
  /\ MasterAbsent
  /\ WaitAbsent
  /\ ScriptsAbsent
  /\ VerifyAbsent
  /\ method \in Methods
  /\ service = "none"
  /\ FixAbsent
  /\ Running

\* the call returns
RequestReturns ==
  /\ pc = "request"
  /\ answer = <<>>
  /\ MethodSupported(suite, method) => Sent(request, TimeoutOf(suite)) # "blocked"
  /\ answer' = <<make_request_method(suite, method, request)>>
  /\ UNCHANGED <<classifier, request, verdict>>
  /\ UNCHANGED <<runVars, masterVars, aloofVars, wait_ret, exit_code>>

\* the request is sent and never answered: the call does not return
RequestBlocks ==
  /\ pc = "request"
  /\ answer = <<>>
  /\ MethodSupported(suite, method)
  /\ Sent(request, TimeoutOf(suite)) = "blocked"
  /\ pc' = "blocked"
  /\ UNCHANGED <<suite, ntests, idx, passed, total, test_results, results_summary,
                 csrf_token, history, ret>>
  /\ UNCHANGED <<classifyVars, masterVars, aloofVars, wait_ret, exit_code>>

NextRequest ==
  \/ RequestReturns
  \/ RequestBlocks

SpecRequest == InitRequest /\ [][NextRequest]_vars

(***************************************************************************)
(* A suite or root script seen both ways: its run as a whole, or one       *)
(* classification by one of its checks.                                    *)
(***************************************************************************)
InitSuites ==
  \/ Init
  \/ InitClassify

NextSuites ==
  \/ Next
  \/ NextClassify

SpecSuites == InitSuites /\ [][NextSuites]_vars

(***************************************************************************)
(* The harness as a whole: the process under observation is any one of     *)
(* the programs above.                                                     *)
(***************************************************************************)
InitHarness ==
  \/ Init
  \/ InitClassify
  \/ InitMaster
  \/ InitScripts
  \/ InitVerify
  \/ InitWait
  \/ InitRequest
  \/ InitQuick

NextHarness ==
  \/ Next
  \/ NextClassify
  \/ NextMaster
  \/ NextScripts
  \/ NextVerify
  \/ NextWait
  \/ NextRequest
  \/ NextQuick

SpecHarness == InitHarness /\ [][NextHarness]_vars

(***************************************************************************)
(* fix_all_tests.py: for each file of test_files, insert the custom assert *)
(* method after __init__ and redirect the self.assert_success( calls to    *)
(* it.  A file is abstracted to what the two rewrites look at:             *)
(*   exists        the file can be opened;                                 *)
(*   methods       how many definitions of the custom method the class has;*)
(*   strict_calls  how many times "self.assert_success(" occurs;           *)
(*   custom_calls  how many times "self.<custom method>(" occurs.          *)
(* The __init__ that init_pattern looks for is in each of the three files  *)
(* and is left in place by the rewrite.                                    *)
(***************************************************************************)
\* Most calls of self.assert_success( in a file explored.
MaxCalls == 2

\* Most runs of the script explored.
MaxRuns == 3

\* test_files, in the order of the list
test_files == <<"test_oracle_performance_controller.py",
                "test_oracle_security_controller.py",
                "test_oracle_privilege_controller.py">>

FileContent(exists, methods, strict_calls, custom_calls) ==
  [exists |-> exists, methods |-> methods, strict_calls |-> strict_calls,
   custom_calls |-> custom_calls]

\* a file of test_files that is not there
MissingFile == FileContent(FALSE, 0, 0, 0)

\* the files before the script was ever run
OriginalFiles ==
  { MissingFile } \cup { FileContent(TRUE, 0, n, 0) : n \in 0..MaxCalls }

\* re.sub(init_pattern, r'\1' + custom_assert_methods[test_file], content):
\* the method text is put after the __init__ the pattern matches
insert_method(content) == [content EXCEPT !.methods = @ + 1]

\* content.replace("self.assert_success(", f"self.{custom_method}(")
replace_calls(content) ==
  [content EXCEPT !.custom_calls = @ + content.strict_calls, !.strict_calls = 0]

\* the body of the loop for one file: read, the two rewrites, write back;
\* a file that cannot be opened is reported and left as it is
FixedContent(content) ==
  IF content.exists THEN replace_calls(insert_method(content)) ELSE content

notFix == <<runVars, classifyVars, masterVars, waitVars, scriptVars, verifyVars, method,
            service, exit_code>>

InitFix ==
  /\ RunAbsent
  /\ ClassifyIdle
  /\ MasterAbsent
  /\ WaitAbsent
  /\ ScriptsAbsent
  /\ VerifyAbsent
  /\ method = "none"
  /\ service = "none"
  /\ files \in [1..Len(test_files) -> OriginalFiles]
  /\ fix_idx = 0
  /\ fix_runs = 0
  /\ fix_pc = "loop"
  /\ Running

\* one iteration of "for test_file in test_files"
FixFile ==
  /\ fix_pc = "loop"
  /\ fix_idx < Len(test_files)
  /\ files' = [files EXCEPT ![fix_idx + 1] = FixedContent(@)]
  /\ fix_idx' = fix_idx + 1
  /\ UNCHANGED <<fix_runs, fix_pc, notFix>>

\* the loop is over: the closing message, the script ends
FixEnds ==
  /\ fix_pc = "loop"
  /\ fix_idx >= Len(test_files)
  /\ fix_pc' = "done"
  /\ fix_runs' = fix_runs + 1
  /\ UNCHANGED <<files, fix_idx, notFix>>

\* the script is run once more on the files it left
FixRunAgain ==
  /\ fix_pc = "done"
  /\ fix_runs < MaxRuns
  /\ fix_pc' = "loop"
  /\ fix_idx' = 0
  /\ UNCHANGED <<files, fix_runs, notFix>>

NextFix ==
  \/ FixFile
  \/ FixEnds
  \/ FixRunAgain

SpecFix == InitFix /\ [][NextFix]_vars

(***************************************************************************)
(* Properties.                                                             *)
(***************************************************************************)
Finished == pc \in {"done", "crashed"}

Raised(i) == history[i].ret = "raise"

NoCheckRaised == \A i \in DOMAIN history : ~Raised(i)

TrueEntries == { i \in DOMAIN test_results : test_results[i].result }

Tolerated == { i \in DOMAIN history : history[i].status \in {200, 404} }

\* C1: when run_all_tests of a controller suite finishes, test_results holds
\* exactly one entry per check of the tests list, in order, and the entry of
\* a check that raised is False.
C1_OneEntryPerCheck ==
  (pc = "done" /\ suite \in ControllerSuites) =>
    /\ Len(test_results) = ntests
    /\ \A i \in 1..ntests :
         /\ test_results[i].check = i
         /\ (Raised(i) => ~test_results[i].result)

\* C2: when run_all_tests of a controller suite finishes, passed equals the
\* number of entries of test_results whose result is True.
C2_PassedCountsTrueEntries ==
  (pc = "done" /\ suite \in ControllerSuites) =>
    passed = Cardinality(TrueEntries)

\* C3: at every step 0 <= passed <= checks invoked so far <= len(tests), and
\* total, once assigned, is len(tests) whatever the checks did.
C3_CountersOrdered ==
  /\ 0 <= passed
  /\ passed <= idx
  /\ idx <= ntests
  /\ Len(history) = idx
  /\ (Finished => total = ntests)
  /\ (suite \in RootScripts /\ pc = "loop" => total = ntests)

C3_Witness ==
  /\ pc = "done"
  /\ total = ntests
  /\ 0 < passed
  /\ passed < ntests
  /\ \E i \in DOMAIN history : Raised(i)
  /\ \E i \in DOMAIN history : history[i].ret = "False"

Classified == verdict # "none"

C5_SuccessPasses ==
  (/\ Classified
   /\ answer[1].status = 200
   /\ answer[1].response.kind = "object"
   /\ answer[1].response.status = "success") => verdict = "True"

C5_Witness ==
  /\ Classified
  /\ classifier = "assert_success"
  /\ answer[1].status = 200
  /\ answer[1].response.status = "success"
  /\ verdict = "True"

ErrorPayload ==
  /\ answer[1].status = 200
  /\ answer[1].response.kind = "object"
  /\ answer[1].response.status = "error"

C7_OtherOutcomesFail ==
  /\ (answer # <<>> /\ (request.failed \/ request.body.kind = "invalid"))
        => answer[1].status = 500
  /\ (Classified /\ answer[1].status \notin {200, 404}) => verdict = "False"

C7_Witness ==
  /\ Classified
  /\ ~request.failed
  /\ request.code = 200
  /\ request.body.kind = "invalid"
  /\ verdict = "False"

\* C8: in a tolerant suite, a finished run in which no check raised reports
\* total = len(tests) and passed = the number of checks whose status was 200
\* or 404, each check having one entry that is True exactly for those
\* statuses; statuses (200, 404, 500) give total 3, passed 2, third False.
C8_TolerantRunCounts ==
  (pc = "done" /\ suite \in TolerantSuites /\ NoCheckRaised) =>
    /\ total = ntests
    /\ Len(history) = ntests
    /\ passed = Cardinality(Tolerated)
    /\ Len(test_results) = ntests
    /\ \A i \in 1..ntests : test_results[i] = Entry(i, i \in Tolerated)
    /\ ([i \in 1..Len(history) |-> history[i].status] = <<200, 404, 500>> =>
          total = 3 /\ passed = 2 /\ ~test_results[3].result /\ ret = "False")

C8_Witness ==
  /\ pc = "done"
  /\ suite \in TolerantSuites
  /\ NoCheckRaised
  /\ [i \in 1..Len(history) |-> history[i].status] = <<200, 404, 500>>
  /\ total = 3
  /\ passed = 2

CheckRaisedStep ==
  /\ Len(history') = Len(history) + 1
  /\ history'[Len(history')].ret = "raise"

\* C10: a check that raises is caught by the loop: the run stays in the
\* loop at the next check, passed is not incremented, nothing is returned
\* yet, and a finished run has invoked every check of the list.
C10_RaiseIsCaught ==
  [][ /\ CheckRaisedStep =>
          (pc' = "loop" /\ idx' = idx + 1 /\ passed' = passed /\ ret' = "none")
      /\ (pc' \in {"done", "crashed"} => Len(history') = ntests') ]_vars

C10_Witness ==
  /\ pc = "done"
  /\ Len(history) >= 2
  /\ Raised(1)
  /\ history[2].ret = "True"
  /\ passed = 1

ChecksInOrder ==
  /\ idx' \in {idx, idx + 1}
  /\ Len(history') = idx'
  /\ \A k \in (Len(test_results) + 1)..Len(test_results') :
       idx' = idx + 1 /\ test_results'[k].check = idx'
  /\ (pc' \in {"done", "crashed"} => idx' = ntests')

SuitesInOrder ==
  /\ Len(overall_results') \in {Len(overall_results), Len(overall_results) + 1}
  /\ \A k \in (Len(overall_results) + 1)..Len(overall_results') :
       overall_results'[k].suite = test_suites[k]
  /\ (master_pc = "running" => test_suites' = test_suites)
  /\ (master_pc' \in {"done", "crashed"} =>
        Len(overall_results') = Len(test_suites'))

ScriptsInOrder ==
  /\ script_idx' \in {script_idx, script_idx + 1}
  /\ Len(results') = script_idx'
  /\ \A k \in (Len(results) + 1)..Len(results') : results'[k].script = script_idx'
  /\ (script_pc' \in {"done", "crashed"} => script_idx' = nscripts')

\* C11: checks are invoked one at a time in list order: every step invokes
\* at most the next check of the list, the checks before it have all
\* returned or raised, what is recorded belongs to the check just invoked,
\* and a finished run has gone through the whole list; likewise the suites
\* of MasterTestRunner and the scripts of ComprehensiveTestRunner.
C11_InvokedInListOrder ==
  [][ChecksInOrder /\ SuitesInOrder /\ ScriptsInOrder]_vars

C11_Witness ==
  /\ pc = "done"
  /\ ntests = 3
  /\ [k \in DOMAIN test_results |-> test_results[k].check] = <<1, 2, 3>>
  /\ Raised(2)

\* C12: when the availability step fails (wait_for_service returned False
\* in a controller suite, test_connection returned False in
\* verify_database_access) the run is abandoned: no check or further step
\* is invoked, nothing is recorded, the run returns False and the process
\* exits with status 1.
C12_UnavailableAbandons ==
  /\ (pc # "absent" /\ wait_ret = "False") =>
        /\ pc = "abandoned"
        /\ idx = 0
        /\ history = <<>>
        /\ test_results = <<>>
        /\ passed = 0
        /\ ret = "False"
        /\ exit_code \in {"none", "1"}
  /\ (verify_log # <<>> /\ verify_log[1].result = "False") =>
        /\ Len(verify_log) = 1
        /\ verify_pc = "abandoned"
        /\ verify_ret = "False"
        /\ exit_code \in {"none", "1"}

C12_Witness ==
  /\ suite \in ControllerSuites
  /\ ntests > 0
  /\ wait_ret = "False"
  /\ pc = "abandoned"
  /\ exit_code = "1"

WaitSafety ==
  /\ Len(health) <= max_attempts
  /\ (wait_pc # "returned" => \A i \in DOMAIN health : health[i] # 200)
  /\ (wait_ret = "True" =>
        /\ health # <<>>
        /\ health[Len(health)] = 200
        /\ \A i \in 1..(Len(health) - 1) : health[i] # 200)
  /\ (wait_ret = "False" =>
        /\ Len(health) = max_attempts
        /\ \A i \in DOMAIN health : health[i] # 200)

\* C13: wait_for_service issues at most max_attempts health requests,
\* returns True at the first one whose status is 200 and issues none after
\* it, returns False after max_attempts requests none of which gave 200,
\* and ends unless a request never returns.
C13_BoundedWait ==
  /\ [](wait_pc # "absent" => WaitSafety)
  /\ <>(wait_pc \in {"returned", "blocked"})

C13_Witness ==
  /\ wait_pc = "returned"
  /\ wait_ret = "True"
  /\ max_attempts = 3
  /\ health = <<404, 500, 200>>
  /\ sleeps = 2

\* C14: a controller suite script, test_banking_corrected.py and
\* test_controllers_advanced.py exit with status 0 exactly when the run
\* returned with passed == total, which for a controller suite requires
\* the service to have been available, and with status 1 otherwise.
C14_ExitStatus ==
  (pc # "absent" /\ ~Running) =>
    /\ exit_code \in {"0", "1"}
    /\ (exit_code = "0" <=> (pc = "done" /\ passed = total))
    /\ (exit_code = "0" /\ suite \in ControllerSuites => wait_ret = "True")

C14_Witness ==
  /\ suite \in ControllerSuites
  /\ pc = "done"
  /\ ntests = 2
  /\ passed = 2
  /\ total = 2
  /\ exit_code = "0"

\* the (status_code, response) pairs make_request can hand to a check, as
\* far as they differ in what a classifier looks at (the status code, the
\* kind of the response, its 'status', 'data' and 'message')
Pairs ==
  { make_request(net) : net \in { n \in NetOutcomes : /\ n.body.results = "absent"
                                                      /\ n.body.token = "absent" } }

\* what each classifier makes of each pair, as things stand
Classification ==
  [c \in Classifiers, x \in Pairs |-> Classify(c, x.status, x.response)]

C16_RequestsHaveDeadline ==
  pc # "blocked"

\* C17: once ComprehensiveTestRunner.run_all_tests is past its test_base.py
\* check, results holds one entry per script gone through, in configured
\* order, whether the script ran to completion, timed out, crashed on
\* launch or was missing; the run reaches its summary, results then has
\* exactly one entry per configured script and the summary lists them all.
C17_OneEntryPerScript ==
  /\ (script_pc \in {"loop", "done"} =>
        /\ Len(results) = script_idx
        /\ \A k \in DOMAIN results : results[k].script = k)
  /\ (script_pc = "done" =>
        /\ Len(results) = nscripts
        /\ reported = [k \in 1..nscripts |-> k])
  /\ script_pc # "crashed"

C17_Witness ==
  /\ script_pc = "done"
  /\ nscripts = 3
  /\ [k \in DOMAIN results |-> results[k].return_code] = <<-1, -3, 0>>
  /\ reported = <<1, 2, 3>>
  /\ script_ret = "False"

\* C18: test_results only grows at its end: every step leaves the entries
\* it held in place and unchanged; it grows only in a step of the check
\* loop of run_all_tests; the summary after the loop, and whatever follows
\* the run, changes neither test_results nor passed.
C18_AppendOnly ==
  [][ /\ Len(test_results') >= Len(test_results)
      /\ SubSeq(test_results', 1, Len(test_results)) = test_results
      /\ (test_results' # test_results => pc = "loop" /\ idx < ntests)
      /\ ((pc = "loop" /\ idx >= ntests) \/ pc \in {"done", "crashed", "abandoned"}
            => test_results' = test_results /\ passed' = passed) ]_vars

C18_Witness ==
  /\ suite \in ControllerSuites
  /\ pc = "done"
  /\ ~Running
  /\ ntests = 3
  /\ Len(test_results) = 4
  /\ test_results[1] = Entry(1, TRUE)
  /\ test_results[2] = Entry(1, FALSE)

\* the copies of the tolerant classifier, applied to one pair
TolerantCopies(status_code, response) ==
  << ai_assert_success(status_code, response),
     perf_assert_success_first(status_code, response),
     perf_assert_success(status_code, response),
     priv_assert_success(status_code, response),
     sec_assert_success(status_code, response) >>

\* the one policy: passed iff status is 200 or 404
TolerantPolicy(status_code) == Bool(status_code \in {200, 404})

\* C19 as stated: ai_assert_success, both definitions of
\* perf_assert_success, priv_assert_success, sec_assert_success and
\* analytics_assert_success classify every pair alike: passed iff the
\* status is 200 or 404.
C19_CopiesIdentical ==
  answer # <<>> =>
    LET s == answer[1].status
        r == answer[1].response
    IN /\ \A i \in 1..5 : TolerantCopies(s, r)[i] = TolerantPolicy(s)
       /\ analytics_assert_success(s, r) = TolerantPolicy(s)

\* C19 amended: ai_assert_success, both definitions of perf_assert_success,
\* priv_assert_success and sec_assert_success classify every pair alike,
\* passed iff the status is 200 or 404; analytics_assert_success agrees
\* with them for every status but 200, where it passes a payload only if
\* its status is 'success', it has a 'data' key, or its status is 'error'
\* with an "SQL grammar" message, and raises on a response that is not an
\* object.
C19_CopiesPolicy ==
  answer # <<>> =>
    LET s == answer[1].status
        r == answer[1].response
        a == analytics_assert_success(s, r)
    IN /\ \A i \in 1..5 : TolerantCopies(s, r)[i] = TolerantPolicy(s)
       /\ (s # 200 => a = TolerantPolicy(s))
       /\ (s = 200 /\ r.kind # "object" => a = "raise")
       /\ (s = 200 /\ r.kind = "object" =>
             (a = "True" <=> \/ r.status = "success"
                             \/ r.data # "absent"
                             \/ (r.status = "error" /\ r.sql)))
       /\ a \in {"True", "False", "raise"}

C19_Witness ==
  /\ Classified
  /\ classifier = "sec_assert_success"
  /\ answer[1].status = 200
  /\ answer[1].response.kind = "object"
  /\ answer[1].response.status = "error"
  /\ answer[1].response.data = "absent"
  /\ ~answer[1].response.sql
  /\ verdict = "True"
  /\ analytics_assert_success(answer[1].status, answer[1].response) = "False"

\* C20: make_request never raises: a connection failure, a body that is
\* not valid JSON and an unsupported method each give (500, {'error': ...});
\* otherwise an empty body gives (status_code, {}) and any other body gives
\* (status_code, parsed JSON).
C20_MakeRequestNeverRaises ==
  (pc = "request" /\ answer # <<>>) =>
    /\ answer[1] # Raise
    /\ answer[1] =
         IF \/ ~MethodSupported(suite, method)
            \/ request.failed
            \/ request.body.kind = "invalid"
           THEN [status |-> 500, response |-> ErrorObject]
           ELSE IF request.body.kind = "empty"
             THEN [status |-> request.code, response |-> EmptyObject]
             ELSE [status |-> request.code, response |-> request.body]

C20_Witness ==
  /\ pc = "request"
  /\ suite \in ControllerSuites
  /\ method = "PATCH"
  /\ ~request.failed
  /\ request.code = 200
  /\ request.body.status = "success"
  /\ answer = << [status |-> 500, response |-> ErrorObject] >>

\* C21: whenever the service returned an HTTP response, the status code
\* make_request hands to the classifier is the status code of that
\* response, so that a 404 reaches a tolerant classifier as 404 and is
\* classified passed whatever its body; the status 500 make_request makes
\* up itself appears only when no response was received.
C21_StatusIsResponseStatus ==
  /\ (answer # <<>> /\ ~request.failed) => answer[1].status = request.code
  /\ (Classified /\ ~request.failed /\ request.code = 404
        /\ classifier = "ai_assert_success") => verdict = "True"
  /\ (answer # <<>> /\ answer[1].response = ErrorObject) => request.failed

\* what C22 says analytics_assert_success returns for a pair
AnalyticsTrue(status_code, response) ==
  \/ status_code = 404
  \/ /\ status_code = 200
     /\ response.kind = "object"
     /\ \/ response.status = "success"
        \/ response.data # "absent"
        \/ (response.status = "error" /\ response.sql)

\* C22 as stated: analytics_assert_success returns True exactly when the
\* status is 404, or the status is 200 and the response has status
\* 'success', or has a 'data' key, or has status 'error' with a message
\* containing "SQL grammar"; for every other pair it returns False.
C22_AnalyticsExact ==
  (Classified /\ classifier = "analytics_assert_success") =>
    verdict = Bool(AnalyticsTrue(answer[1].status, answer[1].response))

\* C22 amended: as stated for every pair but those of status 200 with a
\* response that is not a JSON object, for which analytics_assert_success
\* raises instead of returning False.
C22_AnalyticsPolicy ==
  (Classified /\ classifier = "analytics_assert_success") =>
    verdict =
      IF answer[1].status = 200 /\ answer[1].response.kind # "object"
        THEN "raise"
        ELSE Bool(AnalyticsTrue(answer[1].status, answer[1].response))

C22_Witness ==
  /\ Classified
  /\ classifier = "analytics_assert_success"
  /\ answer[1].status = 200
  /\ answer[1].response.kind = "object"
  /\ answer[1].response.status = "error"
  /\ answer[1].response.sql
  /\ answer[1].response.data = "absent"
  /\ verdict = "True"

\* C23: MasterTestRunner.run_all_tests appends one entry to overall_results
\* per registered suite, in registration order; a suite that raises is
\* recorded CRASHED with success False and the suites after it still run;
\* with at least one suite registered the run returns, and it returns True
\* exactly when every entry has success True.
C23_OneEntryPerSuite ==
  /\ (master_pc \in {"running", "done", "crashed"} =>
        /\ Len(overall_results) <= Len(test_suites)
        /\ \A k \in DOMAIN overall_results :
             /\ overall_results[k].suite = test_suites[k]
             /\ ("raise" \in ModuleRun(test_suites[k], service) =>
                   overall_results[k] = SuiteResult(test_suites[k], "CRASHED", FALSE)))
  /\ (master_pc \in {"done", "crashed"} /\ test_suites # <<>> =>
        /\ master_pc = "done"
        /\ Len(overall_results) = Len(test_suites)
        /\ master_ret = Bool(\A k \in DOMAIN overall_results : overall_results[k].success))

C23_Witness ==
  /\ master_pc = "done"
  /\ test_suites = <<"Core", "Analytics", "Analytics">>
  /\ [k \in DOMAIN overall_results |-> overall_results[k].status]
       = <<"CRASHED", "PASSED", "FAILED">>
  /\ master_ret = "False"

\* C24: run_all_tests.py registers the Core and the Analytics suite; when
\* the service is available and answers every call with HTTP 200 and status
\* 'success', both suites are recorded as passed, run_all_tests returns
\* True and the process exits with status 0.
C24_MasterAllSuccess ==
  (/\ test_suites = <<"Core", "Analytics">>
   /\ service = "all_success"
   /\ master_pc \in {"done", "crashed"}) =>
     /\ master_pc = "done"
     /\ [k \in DOMAIN overall_results |-> overall_results[k].status] = <<"PASSED", "PASSED">>
     /\ master_ret = "True"
     /\ exit_code \in {"none", "0"}

\* every script the runner went through has its entry and its child
ChildPerEntry ==
  /\ Len(children) = Len(results)
  /\ \A k \in DOMAIN results : results[k].script = k

\* C25: in run_all_controller_tests.py and run_quick_tests.py a suite is
\* recorded successful exactly when its child process exited with return
\* code 0, whatever its output says; the runner exits with status 0 exactly
\* when every configured suite has been recorded successful, and with
\* status 1 otherwise.
C25_SuccessIsReturnCodeZero ==
  (script_pc # "absent") =>
    /\ ChildPerEntry
    /\ \A k \in DOMAIN results : results[k].success <=>
           (children[k].ended = "exited" /\ children[k].returncode = 0)
    /\ (~Running =>
          /\ exit_code \in {"0", "1"}
          /\ (exit_code = "0" <=>
                /\ Len(results) = nscripts
                /\ \A k \in DOMAIN results : results[k].success))

C25_Witness ==
  /\ script_pc = "done"
  /\ nscripts = 2
  /\ children[1] = Exited(0, Output("counts", 1, 2))
  /\ results[1].success
  /\ results[1].passed_count = 1
  /\ results[1].test_count = 2
  /\ children[2] = Exited(0, Output("none", 0, 0))
  /\ exit_code = "0"

\* the return code run_all_controller_tests.py records for a script that
\* did not run to its end
CodeOf(how) ==
  CASE how = "TimeoutExpired" -> -1
    [] how = "Exception" -> -2
    [] how = "not run" -> -3

\* C26: in ComprehensiveTestRunner a script that ran out of time, could not
\* be launched or is missing is recorded as failed with test_count and
\* passed_count 0 and with return code -1, -2 or -3 respectively, a code
\* that no script that ran to its end is recorded with; the scripts after
\* it are still gone through.
C26_DistinctReturnCodes ==
  (script_pc \in {"loop", "done"}) =>
    /\ ChildPerEntry
    /\ \A k \in DOMAIN results :
         children[k].ended # "exited" =>
           /\ results[k] = ScriptResult(k, FALSE, NoCounts, CodeOf(children[k].ended))
           /\ \A j \in DOMAIN results :
                children[j].ended = "exited" =>
                  results[j].return_code # results[k].return_code
    /\ (script_pc = "done" => Len(results) = nscripts)

\* C27: when test_base.py is missing, ComprehensiveTestRunner.run_all_tests
\* returns False at once: no script is run, results stays empty, no summary
\* is printed and no JSON file is written, then and afterwards; the process
\* exits with status 1.
C27_MissingBaseAbandons ==
  [][ /\ (script_pc = "start" /\ script_ret' = "False") => script_pc' = "abandoned"
      /\ (script_pc' = "abandoned" =>
            /\ script_ret' = "False"
            /\ script_idx' = 0
            /\ results' = <<>>
            /\ children' = <<>>
            /\ reported' = <<>>
            /\ saved' = NotSaved
            /\ exit_code' \in {"none", "1"})
      /\ (script_pc = "abandoned" => script_pc' = "abandoned") ]_vars

C27_Witness ==
  /\ script_pc = "abandoned"
  /\ nscripts = 3
  /\ results = <<>>
  /\ saved = NotSaved
  /\ script_ret = "False"
  /\ exit_code = "1"

\* C28: wait_for_service sleeps only between attempts: a sleep follows a
\* failed attempt that is not the last one, never a successful attempt and
\* never attempt number max_attempts; a wait that failed throughout has
\* slept max_attempts - 1 times and one that succeeded at attempt k has
\* slept k - 1 times.
C28_BackoffBetweenAttempts ==
  (wait_pc # "absent") =>
    /\ (wait_pc = "sleep" =>
          /\ health # <<>>
          /\ health[Len(health)] # 200
          /\ Len(health) < max_attempts
          /\ sleeps = Len(health) - 1)
    /\ (wait_pc = "request" /\ Len(health) < max_attempts => sleeps = Len(health))
    /\ (wait_ret = "True" => sleeps = Len(health) - 1)
    /\ (wait_ret = "False" /\ max_attempts >= 1 => sleeps = max_attempts - 1)
    /\ (max_attempts >= 1 => sleeps <= max_attempts - 1)

C28_Witness ==
  /\ wait_pc = "returned"
  /\ wait_ret = "False"
  /\ max_attempts = 3
  /\ health = <<500, 404, 500>>
  /\ sleeps = 2

\* total_tests and total_passed_tests of print_detailed_summary
RECURSIVE SumCounts(_, _)
SumCounts(recorded, which) ==
  IF recorded = <<>> THEN 0
  ELSE (IF which = "passed_count" THEN Head(recorded).passed_count
                                  ELSE Head(recorded).test_count)
       + SumCounts(Tail(recorded), which)

\* C29: every entry run_test_script appends to results has
\* 0 <= passed_count <= test_count, whatever the child printed, so the
\* total of the passed counts never exceeds the total of the test counts.
C29_PassedWithinTotal ==
  (script_pc \in {"loop", "done"}) =>
    /\ \A k \in DOMAIN results :
         /\ 0 <= results[k].passed_count
         /\ results[k].passed_count <= results[k].test_count
    /\ SumCounts(results, "passed_count") <= SumCounts(results, "test_count")

\* C30: the rewrite of fix_all_tests.py is idempotent: once a run has gone
\* through the files, a further run leaves every file as it is, so that
\* after any number of runs each file that is there has the custom assert
\* method exactly once and no self.assert_success( call left.
C30_RewriteIdempotent ==
  [][ fix_runs >= 1 =>
        /\ files' = files
        /\ \A f \in DOMAIN files :
             files[f].exists => (files[f].methods = 1 /\ files[f].strict_calls = 0) ]_vars

====
